---------------------------- MODULE Spec2Model ----------------------------
(***************************************************************************)
(* Model of the Momentum practice dashboard (piano-portfolio/scr/App.jsx). *)
(*                                                                         *)
(* Time instants are JavaScript Date values held at one-second resolution  *)
(* (seconds since 00:00 UTC of day 0).  A calendar date string such as the *)
(* one produced by toISOString().split('T')[0] is held as its day number;  *)
(* ISO date strings compare lexicographically exactly as their day numbers *)
(* compare numerically.  A quotient such as cumulativeSeconds/daysElapsed  *)
(* is held as the exact fraction [num, den].                               *)
(***************************************************************************)
EXTENDS Integers, Sequences, FiniteSets, TLC

(***************************************************************************)
(* Bounds of the exploration.                                              *)
(***************************************************************************)
MaxInflight == 2   \* handleSync invocations suspended at an await
MaxBatch == 2      \* events in one events.list response

(***************************************************************************)
(* Calendar arithmetic.                                                    *)
(***************************************************************************)
Hour == 60 * 60
Day == 24 * Hour

At(d, h) == d * Day + h * Hour

\* d.toISOString().split('T')[0]: the UTC calendar date of an instant.
IsoDate(t) == t \div Day

\* d.setHours(0,0,0,0): midnight, in the local time zone, of the local day
\* that holds t.  tzo is the zone's offset from UTC in seconds (east > 0).
SetHoursZero(t, tzo) == ((t + tzo) \div Day) * Day - tzo

\* d.setDate(d.getDate() + n): n local calendar days later, same wall time.
SetDatePlus(t, n) == t + n * Day

\* new Date("YYYY-MM-DD") is UTC midnight of that date; toLocaleDateString
\* then names the local calendar day of that instant (month and day only).
formatDate(dateStr, tzo) == (dateStr * Day + tzo) \div Day

(***************************************************************************)
(* Configuration (lines 6-14).                                             *)
(***************************************************************************)
TARGET_CALENDAR_NAME == "ATracker"
TABS == <<"1D", "7D", "30D", "1Y", "MAX">>

\* String.prototype.toLowerCase on the calendar names that occur.
ToLowerCase(s) ==
  CASE s = "ATracker" -> "atracker"
    [] s = "ATRACKER" -> "atracker"
    [] s = "Work"     -> "work"
    [] OTHER          -> s

(***************************************************************************)
(* The environment: time zone, clock, static dataset, calendar service.    *)
(***************************************************************************)
TimeZones == {0, 2 * Hour}

\* What new Date() reads.  A run is short against a day: the clock is taken
\* to read the same instant throughout it.
ClockReadings == { At(370, 9), At(370, 23) }

\* timeMin of the events query: 2026-01-17T00:00:00Z, with day 0 = 2025-12-17.
TimeMin == At(31, 0)

\* ./data/initialData: lists of {start, duration}; start is held as the
\* instant that new Date(d.start) yields.
CsvDatasets ==
  { <<>>,
    << [start |-> At(368, 10), duration |-> 300],
       [start |-> At(369, 10), duration |-> 300] >>,
    << [start |-> At(370, 8),  duration |-> 900],
       [start |-> At(366, 10), duration |-> 600] >>,
    << [start |-> At(0, 10),   duration |-> 3600],
       [start |-> At(368, 10), duration |-> 300] >> }

\* calendarList.list() results: the calendars of the signed-in account.
CalendarLists ==
  { << [id |-> "c1", summary |-> "Work"] >>,
    << [id |-> "c1", summary |-> "Work"],
       [id |-> "c2", summary |-> "atracker"] >>,
    << [id |-> "c3", summary |-> "ATRACKER"],
       [id |-> "c2", summary |-> "atracker"] >> }

\* Events the calendar may hold after timeMin, in the order orderBy:'startTime'
\* returns them.  A timed event carries start.dateTime and end.dateTime; an
\* all-day event carries start.date and end.date instead.
CalendarEvents ==
  << [id |-> "g2", start |-> [dateTime |-> At(368, 10)],
                   end   |-> [dateTime |-> At(368, 10) + 300]],
     [id |-> "g4", start |-> [date |-> 369],
                   end   |-> [date |-> 370]],
     [id |-> "g1", start |-> [dateTime |-> At(369, 15)],
                   end   |-> [dateTime |-> At(369, 15) + 600]],
     [id |-> "g3", start |-> [dateTime |-> At(369, 15)],
                   end   |-> [dateTime |-> At(369, 15) + 1200]],
     [id |-> "g5", start |-> [dateTime |-> At(369, 18)],
                   end   |-> [date |-> 369]] >>

\* The instant an event ends (an all-day event ends at UTC midnight here).
EndInstant(e) ==
  IF "dateTime" \in DOMAIN e.end THEN e.end.dateTime ELSE At(e.end.date, 0)

RECURSIVE Pick(_, _, _)
\* The events of evs whose index is in idx, in calendar order.
Pick(evs, idx, i) ==
  IF i > Len(evs) THEN <<>>
  ELSE IF i \in idx THEN <<evs[i]>> \o Pick(evs, idx, i + 1)
       ELSE Pick(evs, idx, i + 1)

\* events.list() results: up to MaxBatch events.  badEntry marks a result whose
\* items array ends with an entry that is no event object (null, say), on
\* which reading e.start.dateTime raises a TypeError.
EventResults ==
  LET after == SelectSeq(CalendarEvents, LAMBDA e : EndInstant(e) > TimeMin)
      upTo(n) == { s \in SUBSET (1..Len(after)) : Cardinality(s) <= n }
  IN  { [badEntry |-> FALSE, items |-> Pick(after, idx, 1)] : idx \in upTo(MaxBatch) }
      \cup
      { [badEntry |-> TRUE, items |-> Pick(after, idx, 1)] : idx \in upTo(MaxBatch - 1) }

NoResult == [badEntry |-> FALSE, items |-> <<>>]

VARIABLES
  tz,            \* offset of the browser's time zone
  now,           \* what new Date() reads
  CSV_DATA,      \* the imported static dataset
  mounted,       \* the mount effects have run
  sessions,      \* useState([])
  isSyncing,     \* useState(false)
  gapiLoaded,    \* useState(false)
  user,          \* useState(null): TRUE when a signed-in user is held
  activeTab,     \* useState('7D')
  hoverData,     \* useState(null): <<>> for null, <<entry>> otherwise
  chartData,     \* useMemo over [sessions]
  filteredData,  \* useMemo over [chartData, activeTab]
  syncs,         \* handleSync invocations suspended at an await
  events,        \* handleSync's local: the last events.list result
  prev,          \* the collection the last setSessions updater was given
  outcome        \* how the last handleSync run ended

vars == << tz, now, CSV_DATA, mounted, sessions, isSyncing, gapiLoaded, user,
           activeTab, hoverData, chartData, filteredData, syncs, events,
           prev, outcome >>

-----------------------------------------------------------------------------
(***************************************************************************)
(* Pure helpers.                                                           *)
(***************************************************************************)
Range(s) == { s[i] : i \in 1..Len(s) }

RemoveAt(s, i) == SubSeq(s, 1, i - 1) \o SubSeq(s, i + 1, Len(s))

RECURSIVE InsertByStart(_, _)
\* x placed after every element that does not start later (stable order).
InsertByStart(s, x) ==
  IF s = <<>> THEN <<x>>
  ELSE IF s[1].start - x.start <= 0 THEN <<s[1]>> \o InsertByStart(Tail(s), x)
       ELSE <<x>> \o s

RECURSIVE SortByStart(_)
\* arr.sort((a, b) => a.start - b.start), a stable sort.
SortByStart(s) ==
  IF s = <<>> THEN <<>>
  ELSE InsertByStart(SortByStart(SubSeq(s, 1, Len(s) - 1)), s[Len(s)])

\* CSV_DATA.map(d => ({id: d.start, start: new Date(d.start), ...})).  The tag
\* in an id keeps the start strings of the dataset and the ids the calendar
\* assigns apart.
InitialSessions(csv) ==
  [ i \in 1..Len(csv) |->
      [id |-> <<"csv", csv[i].start>>, start |-> csv[i].start,
       duration |-> csv[i].duration, source |-> "csv"] ]

\* !e.start.dateTime || !e.end.dateTime
LacksDateTime(e) ==
  ("dateTime" \notin DOMAIN e.start) \/ ("dateTime" \notin DOMAIN e.end)

RECURSIVE MapEvents_NoFilter(_)
\* Variant: an event without a date-time still yields a session, of length 0.
MapEvents_NoFilter(items) ==
  IF items = <<>> THEN <<>>
  ELSE LET e == items[1]
           st == IF "dateTime" \in DOMAIN e.start THEN e.start.dateTime
                 ELSE At(e.start.date, 0)
           en == IF "dateTime" \in DOMAIN e.end THEN e.end.dateTime ELSE st
       IN  << [id |-> <<"google", e.id>>, start |-> st, duration |-> en - st,
               source |-> "google"] >> \o MapEvents_NoFilter(Tail(items))

RECURSIVE MapEvents(_)
\* items.map(e => ...).filter(Boolean)
MapEvents(items) ==
  IF items = <<>> THEN <<>>
  ELSE LET e == items[1] IN
       IF LacksDateTime(e) THEN MapEvents(Tail(items))
       ELSE << [id |-> <<"google", e.id>>, start |-> e.start.dateTime,
                duration |-> e.end.dateTime - e.start.dateTime,
                source |-> "google"] >> \o MapEvents(Tail(items))

\* Variant: the fetched records are appended without the duplicate check.
MergeSessions_KeepAll(p, newSessions) == SortByStart(p \o newSessions)

\* The updater given to setSessions.
MergeSessions(p, newSessions) ==
  LET existingIds == { p[i].start : i \in 1..Len(p) }
      uniqueNew   == SelectSeq(newSessions, LAMBDA n : n.start \notin existingIds)
  IN  SortByStart(p \o uniqueNew)

RECURSIVE Populate(_, _)
\* sorted.forEach(s => { if (dayMap.has(dStr)) dayMap.set(dStr, ... + s.duration) })
Populate(dayMap, sorted) ==
  IF sorted = <<>> THEN dayMap
  ELSE LET dStr == IsoDate(sorted[1].start) IN
       IF dStr \in DOMAIN dayMap
         THEN Populate([dayMap EXCEPT ![dStr] = @ + sorted[1].duration], Tail(sorted))
         ELSE Populate(dayMap, Tail(sorted))

RECURSIVE SumOver(_, _)
\* The sum of f over the finite set S of day keys.
SumOver(f, S) ==
  IF S = {} THEN 0
  ELSE LET d == CHOOSE x \in S : \A y \in S : x <= y
       IN  f[d] + SumOver(f, S \ {d})

\* for (const [dateStr, dailySeconds] of dayMap) { ... dataPoints.push(...) }
\* cumulativeSeconds after the k-th iteration is the total of the first k
\* keys; the keys ascend by one, so those are the keys up to keys[k], and only
\* the days that hold play time need adding up.
DataPoints(keys, dayMap, tzo) ==
  LET played == { d \in DOMAIN dayMap : dayMap[d] # 0 }
      cumulativeSeconds(k) == SumOver(dayMap, { d \in played : d <= keys[k] })
  IN  [ k \in 1..Len(keys) |->
          [date |-> keys[k],
           average |-> [num |-> cumulativeSeconds(k), den |-> k],
           dailyPlay |-> dayMap[keys[k]],
           formattedDate |-> formatDate(keys[k], tzo)] ]

\* The body of the chartData memo.
ComputeChartData(sess, t, tzo) ==
  IF Len(sess) = 0 THEN <<>>
  ELSE LET sorted    == SortByStart(sess)
           startDate == sorted[1].start
           curr0     == SetHoursZero(startDate, tzo)
           today     == SetHoursZero(t, tzo)
           n         == IF curr0 <= today THEN (today - curr0) \div Day + 1 ELSE 0
           keys      == [ k \in 1..n |-> IsoDate(SetDatePlus(curr0, k - 1)) ]
           zeroMap   == [ d \in Range(keys) |-> 0 ]
           dayMap    == Populate(zeroMap, sorted)
       IN  DataPoints(keys, dayMap, tzo)

DaysToSubtract(tab) ==
  CASE tab = "1D"  -> 1
    [] tab = "7D"  -> 7
    [] tab = "30D" -> 30
    [] tab = "1Y"  -> 365
    [] OTHER       -> 0

\* Variant: the cutoff date itself is left out.
ComputeFilteredData_Strict(cd, tab, t) ==
  IF Len(cd) = 0 THEN <<>>
  ELSE IF tab = "MAX" THEN cd
  ELSE LET cutoffStr == IsoDate(SetDatePlus(t, 0 - DaysToSubtract(tab)))
       IN  SelectSeq(cd, LAMBDA d : d.date > cutoffStr)

\* The body of the filteredData memo.
ComputeFilteredData(cd, tab, t) ==
  IF Len(cd) = 0 THEN <<>>
  ELSE IF tab = "MAX" THEN cd
  ELSE LET cutoff    == SetDatePlus(t, 0 - DaysToSubtract(tab))
           cutoffStr == IsoDate(cutoff)
       IN  SelectSeq(cd, LAMBDA d : d.date >= cutoffStr)

-----------------------------------------------------------------------------
(***************************************************************************)
(* What a render derives from the state (lines 201-210, 224-238, 269).     *)
(***************************************************************************)
Zero == [num |-> 0, den |-> 1]

\* a >= b on quotients with positive denominators.
Geq(a, b) == a.num * b.den >= b.num * a.den

\* a - b
Minus(a, b) == [num |-> a.num * b.den - b.num * a.den, den |-> a.den * b.den]

\* Math.abs(q)
MathAbs(q) == [num |-> IF q.num < 0 THEN 0 - q.num ELSE q.num, den |-> q.den]

\* q.toFixed(0) for q >= 0: the nearest integer, the larger of two nearest.
ToFixed0(q) == (2 * q.num + q.den) \div (2 * q.den)

startPrice ==
  IF Len(filteredData) > 0 THEN filteredData[1].average ELSE Zero

currentPrice ==
  IF Len(filteredData) > 0 THEN filteredData[Len(filteredData)].average ELSE Zero

\* Variant: an unchanged average counts as a loss.
isProfit_Strict == ~Geq(startPrice, currentPrice)

isProfit == Geq(currentPrice, startPrice)

color == IF isProfit THEN "#22c55e" ELSE "#ef4444"

displayPrice == IF hoverData # <<>> THEN hoverData[1].average ELSE currentPrice

\* The number in the delta pill, rendered only while nothing is hovered.
deltaPill == ToFixed0(MathAbs(Minus(currentPrice, startPrice)))

deltaPillShown == hoverData = <<>>

\* <ReferenceLine y={startPrice} />
referenceLineY == startPrice

\* Variant: the button is never disabled.
syncDisabled_Never == FALSE

\* <button onClick={handleSync} disabled={isSyncing}>
syncDisabled == isSyncing

-----------------------------------------------------------------------------
Init ==
  /\ tz \in TimeZones
  /\ now \in ClockReadings
  /\ CSV_DATA \in CsvDatasets
  /\ mounted = FALSE
  /\ sessions = <<>>
  /\ isSyncing = FALSE
  /\ gapiLoaded = FALSE
  /\ user = FALSE
  /\ activeTab = "7D"
  /\ hoverData = <<>>
  /\ chartData = <<>>
  /\ filteredData = <<>>
  /\ syncs = <<>>
  /\ events = NoResult
  /\ prev = <<>>
  /\ outcome = "idle"

\* The first effect (lines 38-47) and the render it causes.  React runs the
\* mount effects before it handles any user event.
Mount ==
  /\ ~mounted
  /\ mounted' = TRUE
  /\ sessions' = InitialSessions(CSV_DATA)
  /\ chartData' = ComputeChartData(sessions', now, tz)
  /\ filteredData' = ComputeFilteredData(chartData', activeTab, now)
  /\ UNCHANGED << tz, now, CSV_DATA, isSyncing, gapiLoaded, user, activeTab,
                  hoverData, syncs, events, prev, outcome >>

\* gapi.client.init(...).then(...) (lines 57-60).
GapiInit ==
  /\ mounted
  /\ ~gapiLoaded
  /\ gapiLoaded' = TRUE
  /\ user' \in BOOLEAN
  /\ UNCHANGED << tz, now, CSV_DATA, mounted, sessions, isSyncing, activeTab,
                  hoverData, chartData, filteredData, syncs, events,
                  prev, outcome >>

\* authInstance.isSignedIn.listen(...) (lines 61-63): the user signs in
\* (after signIn() or elsewhere) or out.
SignedInChanged ==
  /\ gapiLoaded
  /\ user' = ~user
  /\ UNCHANGED << tz, now, CSV_DATA, mounted, sessions, isSyncing, gapiLoaded,
                  activeTab, hoverData, chartData, filteredData, syncs, events, prev, outcome >>

\* A click on the sync button: nothing on a disabled button, else handleSync
\* up to its first await (lines 69-79).  Without gapi the handler returns;
\* without a user it calls signIn() and returns, and the sign-in, if it comes,
\* arrives through the listener (SignedInChanged).
ClickSync ==
  /\ mounted
  /\ IF syncDisabled \/ ~gapiLoaded \/ ~user
       THEN UNCHANGED vars
       ELSE /\ Len(syncs) < MaxInflight
            /\ isSyncing' = TRUE
            /\ syncs' = Append(syncs, [pc |-> "calendarList", calendarId |-> ""])
            /\ events' = NoResult
            /\ prev' = <<>>
            /\ outcome' = "pending"
            /\ UNCHANGED << tz, now, CSV_DATA, mounted, sessions, gapiLoaded,
                            user, activeTab, hoverData, chartData, filteredData >>

\* calList.result.items.find(c => c.summary.toLowerCase() === ...)
FindTargetCal(items) ==
  LET hits == { i \in 1..Len(items) :
                  ToLowerCase(items[i].summary) = ToLowerCase(TARGET_CALENDAR_NAME) }
  IN  IF hits = {} THEN <<>>
      ELSE << items[CHOOSE i \in hits : \A j \in hits : i <= j] >>

\* calendarList.list() rejects: catch and finally (lines 121-126).
CalendarListRejects(i) ==
  /\ syncs[i].pc = "calendarList"
  /\ syncs' = RemoveAt(syncs, i)
  /\ outcome' = "failed"
  /\ isSyncing' = FALSE
  /\ UNCHANGED << tz, now, CSV_DATA, mounted, sessions, gapiLoaded, user,
                  activeTab, hoverData, chartData, filteredData,
                  events, prev >>

\* Variant: the run that finds no calendar returns with the flag still set.
CalendarListResolves_FlagLeft(i, calList) ==
  /\ syncs[i].pc = "calendarList"
  /\ LET targetCal == FindTargetCal(calList) IN
       IF targetCal = <<>>
         THEN /\ syncs' = RemoveAt(syncs, i)
              /\ outcome' = "notFound"
              /\ UNCHANGED isSyncing
         ELSE /\ syncs' = [syncs EXCEPT ![i] =
                              [pc |-> "eventsList", calendarId |-> targetCal[1].id]]
              /\ UNCHANGED << outcome, isSyncing >>
  /\ UNCHANGED << tz, now, CSV_DATA, mounted, sessions, gapiLoaded, user,
                  activeTab, hoverData, chartData, filteredData, events, prev >>

\* calendarList.list() resolves (lines 79-98): without the target calendar
\* the run alerts, clears the flag and returns; with it, events.list is called.
CalendarListResolves(i, calList) ==
  /\ syncs[i].pc = "calendarList"
  /\ LET targetCal == FindTargetCal(calList) IN
       IF targetCal = <<>>
         THEN /\ syncs' = RemoveAt(syncs, i)
              /\ outcome' = "notFound"
              /\ isSyncing' = FALSE
         ELSE /\ syncs' = [syncs EXCEPT ![i] =
                              [pc |-> "eventsList", calendarId |-> targetCal[1].id]]
              /\ UNCHANGED << outcome, isSyncing >>
  /\ UNCHANGED << tz, now, CSV_DATA, mounted, sessions, gapiLoaded, user,
                  activeTab, hoverData, chartData, filteredData,
                  events, prev >>

\* events.list() rejects: catch and finally (lines 121-126).
EventsListRejects(i) ==
  /\ syncs[i].pc = "eventsList"
  /\ syncs' = RemoveAt(syncs, i)
  /\ outcome' = "failed"
  /\ isSyncing' = FALSE
  /\ UNCHANGED << tz, now, CSV_DATA, mounted, sessions, gapiLoaded, user,
                  activeTab, hoverData, chartData, filteredData,
                  events, prev >>

\* Variant: the records converted before the conversion throws are merged.
EventsListResolves_MergesBeforeThrow(i, result) ==
  /\ syncs[i].pc = "eventsList"
  /\ syncs' = RemoveAt(syncs, i)
  /\ events' = result
  /\ isSyncing' = FALSE
  /\ outcome' = IF result.badEntry THEN "failed" ELSE "merged"
  /\ prev' = sessions
  /\ sessions' = MergeSessions(sessions, MapEvents(result.items))
  /\ chartData' = ComputeChartData(sessions', now, tz)
  /\ filteredData' = ComputeFilteredData(chartData', activeTab, now)
  /\ UNCHANGED << tz, now, CSV_DATA, mounted, gapiLoaded, user, activeTab,
                  hoverData >>

\* events.list() resolves (lines 100-126): the conversion either throws, and
\* the run ends in catch and finally, or it yields newSessions, which are
\* merged; the render that follows recomputes both memos.
EventsListResolves(i, result) ==
  /\ syncs[i].pc = "eventsList"
  /\ syncs' = RemoveAt(syncs, i)
  /\ events' = result
  /\ isSyncing' = FALSE
  /\ IF result.badEntry
       THEN /\ outcome' = "failed"
            /\ UNCHANGED << sessions, chartData, filteredData, prev >>
       ELSE /\ outcome' = "merged"
            /\ prev' = sessions
            /\ sessions' = MergeSessions(sessions, MapEvents(result.items))
            /\ chartData' = ComputeChartData(sessions', now, tz)
            /\ filteredData' = ComputeFilteredData(chartData', activeTab, now)
  /\ UNCHANGED << tz, now, CSV_DATA, mounted, gapiLoaded, user, activeTab,
                  hoverData >>

\* onClick={() => setActiveTab(tab)} (line 291) and the render it causes.
SetActiveTab(tab) ==
  /\ mounted
  /\ tab # activeTab
  /\ activeTab' = tab
  /\ filteredData' = ComputeFilteredData(chartData, tab, now)
  /\ UNCHANGED << tz, now, CSV_DATA, mounted, sessions, isSyncing, gapiLoaded,
                  user, hoverData, chartData, syncs, events, prev,
                  outcome >>

\* onMouseMove (line 244): the pointer is over the k-th plotted point.
MouseMove(k) ==
  /\ k \in 1..Len(filteredData)
  /\ hoverData' = << filteredData[k] >>
  /\ UNCHANGED << tz, now, CSV_DATA, mounted, sessions, isSyncing, gapiLoaded,
                  user, activeTab, chartData, filteredData, syncs,
                  events, prev, outcome >>

\* onMouseLeave (line 244).
MouseLeave ==
  /\ mounted
  /\ hoverData # <<>>
  /\ hoverData' = <<>>
  /\ UNCHANGED << tz, now, CSV_DATA, mounted, sessions, isSyncing, gapiLoaded,
                  user, activeTab, chartData, filteredData, syncs,
                  events, prev, outcome >>

\* The plotted points the pointer is moved over.
HoverPoints == { Len(filteredData) }

Next ==
  \/ Mount
  \/ GapiInit
  \/ SignedInChanged
  \/ ClickSync
  \/ \E i \in 1..Len(syncs) : CalendarListRejects(i)
  \/ \E i \in 1..Len(syncs) : \E calList \in CalendarLists : CalendarListResolves(i, calList)
  \/ \E i \in 1..Len(syncs) : EventsListRejects(i)
  \/ \E i \in 1..Len(syncs) : \E result \in EventResults : EventsListResolves(i, result)
  \/ \E tab \in Range(TABS) : SetActiveTab(tab)
  \/ \E k \in HoverPoints : MouseMove(k)
  \/ MouseLeave

Spec == Init /\ [][Next]_vars

-----------------------------------------------------------------------------
(***************************************************************************)
(* Notions the properties are stated in.                                   *)
(***************************************************************************)
StartsOf(s) == { s[i].start : i \in 1..Len(s) }

Occurrences(s, r) == Cardinality({ i \in 1..Len(s) : s[i] = r })

RECURSIVE TotalDuration(_)
TotalDuration(s) ==
  IF s = <<>> THEN 0 ELSE s[1].duration + TotalDuration(Tail(s))

EarliestStart(s) == CHOOSE t \in StartsOf(s) : \A u \in StartsOf(s) : t <= u

\* The calendar date of an instant in the browser's time zone.
LocalDate(t) == (t + tz) \div Day

\* A fetched event that carries both date-times, and the record it stands for.
Timed(e) == ("dateTime" \in DOMAIN e.start) /\ ("dateTime" \in DOMAIN e.end)

RecordOf(e) ==
  [id |-> <<"google", e.id>>, start |-> e.start.dateTime,
   duration |-> e.end.dateTime - e.start.dateTime, source |-> "google"]

IsSuffix(f, c) ==
  /\ Len(f) <= Len(c)
  /\ f = SubSeq(c, Len(c) - Len(f) + 1, Len(c))

(***************************************************************************)
(* C1: for a non-empty session collection the day-series holds exactly one *)
(* entry per calendar date from the date of the earliest session through   *)
(* today, ascending and without gap or repetition, and a day without       *)
(* session has daily total 0.  The dates are read in UTC or, if that       *)
(* fails, in the browser's zone.                                           *)
(***************************************************************************)
C1_SeriesCoversEarliestThroughToday ==
  sessions # <<>> =>
    LET Covers(first, last) ==
          /\ Len(chartData) = last - first + 1
          /\ \A i \in 1..Len(chartData) : chartData[i].date = first + i - 1
    IN  /\ \/ Covers(IsoDate(EarliestStart(sessions)), IsoDate(now))
           \/ Covers(LocalDate(EarliestStart(sessions)), LocalDate(now))
        /\ \A i \in 1..Len(chartData) :
             (\A j \in 1..Len(sessions) :
                 /\ IsoDate(sessions[j].start) # chartData[i].date
                 /\ LocalDate(sessions[j].start) # chartData[i].date)
             => chartData[i].dailyPlay = 0

(***************************************************************************)
(* C2: for a non-empty session collection the cumulative average of the    *)
(* last day-series entry is the sum of all session durations divided by    *)
(* the number of entries.                                                  *)
(***************************************************************************)
C2_LastAverageIsTotalOverDays ==
  sessions # <<>> =>
    /\ chartData # <<>>
    /\ LET avg == chartData[Len(chartData)].average
       IN  avg.num * Len(chartData) = TotalDuration(sessions) * avg.den

(***************************************************************************)
(* C3: after a successful sync the collection is the previous collection   *)
(* plus exactly the fetched records whose start is not the start of a      *)
(* record held before: those with such a start are dropped, every record   *)
(* held before is retained, and a batch of duplicates only leaves the size *)
(* unchanged.                                                              *)
(***************************************************************************)
C3_DuplicateStartsDropped ==
  outcome = "merged" =>
    LET items   == events.items
        fetched == { i \in 1..Len(items) : Timed(items[i]) }
        kept    == { i \in fetched : items[i].start.dateTime \notin StartsOf(prev) }
    IN  /\ Len(sessions) = Len(prev) + Cardinality(kept)
        /\ \A r \in Range(sessions) \cup Range(prev) \cup { RecordOf(items[i]) : i \in fetched } :
             Occurrences(sessions, r) =
               Occurrences(prev, r) + Cardinality({ i \in kept : RecordOf(items[i]) = r })
        /\ (kept = {}) => Len(sessions) = Len(prev)

C3_Witness ==
  /\ outcome = "merged"
  /\ \E i \in 1..Len(events.items) : Timed(events.items[i])
  /\ \A i \in 1..Len(events.items) :
       Timed(events.items[i]) => events.items[i].start.dateTime \in StartsOf(prev)
  /\ prev # <<>>
  /\ sessions = prev

(***************************************************************************)
(* C4: from the start of a sync to its failure (a rejected call, no        *)
(* matching calendar, an error in the conversion) no step changes the      *)
(* session collection or the day-series.                                   *)
(***************************************************************************)
C4_FailedSyncChangesNothing ==
  [][ (outcome = "pending" /\ outcome' \in {"pending", "failed", "notFound"})
        => (sessions' = sessions /\ chartData' = chartData) ]_vars

C4_Witness ==
  /\ outcome = "failed"
  /\ events.badEntry
  /\ \E i \in 1..Len(events.items) :
       /\ Timed(events.items[i])
       /\ events.items[i].start.dateTime \notin StartsOf(sessions)
  /\ sessions # <<>>

(***************************************************************************)
(* C5: once no calendar call of a sync is pending any more, the busy flag  *)
(* is false, whichever way the sync ended.                                 *)
(***************************************************************************)
C5_BusyFlagCleared ==
  (syncs = <<>>) => (isSyncing = FALSE)

C5_Witness ==
  /\ outcome = "notFound"
  /\ syncs = <<>>
  /\ isSyncing = FALSE

(***************************************************************************)
(* C6: at most one calendar fetch is in flight at any time.                *)
(***************************************************************************)
C6_AtMostOneFetchInFlight ==
  Len(syncs) <= 1

C6_Witness ==
  /\ Len(syncs) = 1
  /\ syncs[1].pc = "eventsList"
  /\ isSyncing
  /\ hoverData # <<>>
  /\ activeTab = "MAX"

(***************************************************************************)
(* C7: after a successful sync no event of the batch that lacks a start or *)
(* end date-time has become a session, every event of the batch with both  *)
(* date-times and a start not held before has, and a batch of such lacking *)
(* events only leaves the length of the collection unchanged.              *)
(***************************************************************************)
C7_EventsWithoutDateTimeExcluded ==
  outcome = "merged" =>
    LET items == events.items
        idOf(i) == <<"google", items[i].id>>
    IN  /\ \A i \in 1..Len(items) :
             ~Timed(items[i]) => \A j \in 1..Len(sessions) : sessions[j].id # idOf(i)
        /\ \A i \in 1..Len(items) :
             (Timed(items[i]) /\ items[i].start.dateTime \notin StartsOf(prev))
               => \E j \in 1..Len(sessions) : sessions[j] = RecordOf(items[i])
        /\ (\A i \in 1..Len(items) : ~Timed(items[i])) => Len(sessions) = Len(prev)

C7_Witness ==
  /\ outcome = "merged"
  /\ \E i \in 1..Len(events.items) :
       /\ "dateTime" \in DOMAIN events.items[i].start
       /\ "dateTime" \notin DOMAIN events.items[i].end
  /\ \E i \in 1..Len(events.items) :
       /\ Timed(events.items[i])
       /\ events.items[i].start.dateTime \notin StartsOf(prev)
  /\ Len(sessions) = Len(prev) + 1

(***************************************************************************)
(* C8: filteredData is a contiguous suffix of the day-series in the same   *)
(* order; for MAX it is the whole series; for 7D, 30D and 1Y it holds      *)
(* exactly the entries dated on or after today minus 7, 30 and 365 days;   *)
(* and a change of the range changes neither the session collection nor    *)
(* the day-series.                                                         *)
(***************************************************************************)
WindowDays(tab) == IF tab = "7D" THEN 7 ELSE IF tab = "30D" THEN 30 ELSE 365

FilterIsWindow ==
  /\ IsSuffix(filteredData, chartData)
  /\ (activeTab = "MAX") => (filteredData = chartData)
  /\ (activeTab \in {"7D", "30D", "1Y"}) =>
        LET from == IsoDate(now) - WindowDays(activeTab)
            cut  == Len(chartData) - Len(filteredData)
        IN  \A i \in 1..Len(chartData) :
              (i > cut) <=> (chartData[i].date >= from)

C8_FilterIsWindowSuffix ==
  /\ []FilterIsWindow
  /\ [][ (activeTab' # activeTab) =>
            (sessions' = sessions /\ chartData' = chartData) ]_vars

C8_Witness ==
  /\ activeTab = "1Y"
  /\ filteredData # <<>>
  /\ Len(filteredData) < Len(chartData)
  /\ filteredData[1].date = IsoDate(now) - 365

(***************************************************************************)
(* C9: with a non-empty filtered sub-sequence the trend is positive        *)
(* exactly when its last average minus its first is non-negative and       *)
(* negative exactly when that difference is negative, the delta shown is   *)
(* the absolute difference (to the nearest whole second, and exact when    *)
(* the difference is whole), and the reference line is at the first value. *)
(***************************************************************************)
C9_TrendFromFirstAndLast ==
  filteredData # <<>> =>
    LET first == filteredData[1].average
        last  == filteredData[Len(filteredData)].average
        x     == last.num * first.den - first.num * last.den
        d     == first.den * last.den
        absx  == IF x < 0 THEN 0 - x ELSE x
    IN  /\ isProfit <=> (x >= 0)
        /\ (color = "#ef4444") <=> (x < 0)
        /\ 2 * deltaPill * d <= 2 * absx + d
        /\ 2 * absx + d < 2 * (deltaPill + 1) * d
        /\ (absx % d = 0) => (deltaPill * d = absx)
        /\ referenceLineY = first

C9_Witness ==
  /\ Len(filteredData) > 1
  /\ filteredData[1].average.num = 300 * filteredData[1].average.den
  /\ filteredData[Len(filteredData)].average.num
       = 200 * filteredData[Len(filteredData)].average.den
  /\ ~isProfit
  /\ deltaPill = 100
  /\ deltaPillShown

(***************************************************************************)
(* C10: if the records of the initial dataset have pairwise distinct start *)
(* timestamps, no two records of the session collection share a start      *)
(* timestamp.                                                              *)
(***************************************************************************)
C10_StartIsUniqueKey ==
  (Cardinality(StartsOf(CSV_DATA)) = Len(CSV_DATA))
    => (Cardinality(StartsOf(sessions)) = Len(sessions))

=============================================================================
